---- MODULE Spec2Model ----
(***************************************************************************)
(* Fleet management: the lane arbiter (controllers/traffic_manager.py),    *)
(* the robot state machine (models/robot.py) and the fleet registry        *)
(* (controllers/fleet_manager.py), over a fixed navigation graph.          *)
(*                                                                         *)
(* Units.  Durations are counted in half seconds: delta_time = 1 is 0.5 s. *)
(* progress is counted in halves of a lane: ProgressFull = 2 is the 1.0 of *)
(* robot.py:172.  battery is counted in quarters of a percent, so that the *)
(* drain of 0.5 %/s over half a second is 1.                               *)
(*                                                                         *)
(* The wall clock.  The code only ever compares the difference of two      *)
(* readings of time.time() with a threshold, so the clock is kept relative *)
(* to the present: the present reading is always now, and when ClockStep   *)
(* half seconds pass every stored reading moves ClockStep into the past,   *)
(* down to Oldest.  now - Oldest exceeds every threshold of the code, so a *)
(* reading at Oldest compares as any older reading would.                  *)
(***************************************************************************)
EXTENDS Integers, Sequences, FiniteSets, TLC

VARIABLES
    robots,                 \* FleetManager.robots: the list of Robot objects
    next_id,                \* FleetManager.next_id
    occupied_lanes,         \* TrafficManager.occupied_lanes: lane -> robot id
    waiting_queues,         \* TrafficManager.waiting_queues: lane -> list of ids
    occupation_timestamps,  \* TrafficManager.occupation_timestamps: lane -> time
    last_deadlock_check,    \* TrafficManager.last_deadlock_check
    new_events,             \* what the last operation appended to event_log
    last,                   \* the last operation: its name, arguments and result
    tasks,                  \* how many assign_task calls have been made
    trail,                  \* per robot: the path planned at its last assignment
                            \* and the vertices it has arrived at since
    threads                 \* request_lane calls in progress on other threads

vars == <<robots, next_id, occupied_lanes, waiting_queues, occupation_timestamps,
          last_deadlock_check, new_events, last, tasks, trail, threads>>

-----------------------------------------------------------------------------
(* Bounds of the model *)

MaxRobots == 2
MaxClockSteps == 1
ClockStep == 21
MaxDrain == 1
MaxTasks == 3

(* Program constants *)

ProgressFull == 2
MovementSpeed == 1
BatteryFull == 400
BatteryDrain == 1
MinBattery == 80
MaxWaitTime == 20
StaleAfter == 10
CheckPeriod == 4

\* delta_time: a frame in which no time has passed, half a second, a second
DeltaTimes == {0, 1, 2}
\* the frames of update_robots
FrameTimes == {0, 2}

now == (MaxClockSteps + 1) * ClockStep
Oldest == now - MaxClockSteps * ClockStep

None == <<>>
NoTime == -1
NoVertex == -1

-----------------------------------------------------------------------------
(* The navigation graph: three vertices, a two-way lane 0 <-> 1 and a      *)
(* one-way lane 1 -> 2.  Nothing leaves vertex 2.                          *)

Vertices == 0 .. 2
Edges == {<<0, 1>>, <<1, 0>>, <<1, 2>>}

Min(S) == CHOOSE x \in S : \A y \in S : x <= y

PathsFromTo(start, end, n) ==
    {p \in [1 .. n -> Vertices] :
        /\ p[1] = start
        /\ p[n] = end
        /\ \A i \in 1 .. n - 1 : <<p[i], p[i + 1]>> \in Edges}

\* nx.astar_path: the vertex sequence from start to end, both included;
\* [start] when start = end; [] when NetworkXNoPath is raised.
ShortestPaths ==
    [s \in Vertices, e \in Vertices |->
        LET lens == {n \in 1 .. Cardinality(Vertices) : PathsFromTo(s, e, n) # {}}
        IN  IF lens = {} THEN <<>>
            ELSE CHOOSE p \in PathsFromTo(s, e, Min(lens)) : TRUE]

get_shortest_path(start, end) == ShortestPaths[start, end]

\* Every lane a robot can ask for: (current_vertex, path[0]).
Lanes == Edges \cup {<<v, v>> : v \in Vertices}

Rev(lane) == <<lane[2], lane[1]>>

-----------------------------------------------------------------------------
(* Dictionaries *)

Put(f, k, v) == [x \in DOMAIN f \cup {k} |-> IF x = k THEN v ELSE f[x]]
Del(f, k) == [x \in DOMAIN f \ {k} |-> f[x]]
EmptyDict == [x \in {} |-> 0]

RECURSIVE SeqRemove(_, _)
\* list.remove(x): drops the first occurrence
SeqRemove(s, x) ==
    IF s = <<>> THEN <<>>
    ELSE IF Head(s) = x THEN Tail(s)
    ELSE <<Head(s)>> \o SeqRemove(Tail(s), x)

InSeq(x, s) == \E i \in 1 .. Len(s) : s[i] = x

-----------------------------------------------------------------------------
(* TrafficManager.  An arbiter state is the record tm; every operation     *)
(* returns the new record (and its result).                                *)

TM == [occupied_lanes |-> occupied_lanes,
       waiting_queues |-> waiting_queues,
       occupation_timestamps |-> occupation_timestamps,
       last_deadlock_check |-> last_deadlock_check,
       event_log |-> <<>>]

_log_event(tm, event_type, robot_id, lane) ==
    [tm EXCEPT !.event_log =
        Append(@, [event |-> event_type, robot_id |-> robot_id, lane |-> lane])]

is_lane_occupied(tm, lane) == lane \in DOMAIN tm.occupied_lanes

\* detect_collisions(lane): [(lane, reverse)] when the reverse is reserved
detect_collisions_lane(tm, lane) ==
    IF Rev(lane) \in DOMAIN tm.occupied_lanes THEN {<<lane, Rev(lane)>>} ELSE {}

\* detect_collisions(): every reserved lane whose reverse is reserved
detect_collisions(tm) ==
    {<<lane, Rev(lane)>> : lane \in
        {l \in DOMAIN tm.occupied_lanes : Rev(l) \in DOMAIN tm.occupied_lanes}}

\* Enqueue without the test "if robot_id not in self.waiting_queues[lane]".
EnqueueAlways(tm, robot_id, lane) ==
    [tm EXCEPT !.waiting_queues[lane] = Append(@, robot_id)]

\* lines 45-48.  waiting_queues is modelled as a list for every lane: a lane
\* with no entry and a lane with an empty list are read alike everywhere.
Enqueue(tm, robot_id, lane) ==
    IF InSeq(robot_id, tm.waiting_queues[lane])
    THEN tm
    ELSE [tm EXCEPT !.waiting_queues[lane] = Append(@, robot_id)]

request_lane(tm, robot_id, lane, t) ==
    IF detect_collisions_lane(tm, lane) # {}
    THEN [tm |-> _log_event(tm, "BLOCKED", robot_id, lane), ret |-> FALSE]
    ELSE IF lane \notin DOMAIN tm.occupied_lanes
            /\ Rev(lane) \notin DOMAIN tm.occupied_lanes
    THEN [tm |-> [tm EXCEPT !.occupied_lanes = Put(@, lane, robot_id),
                            !.occupation_timestamps = Put(@, lane, t)],
          ret |-> TRUE]
    ELSE [tm |-> Enqueue(tm, robot_id, lane), ret |-> FALSE]

\* release_lane that hands the lane to the head of its wait queue.
ReleaseLaneGranting(tm, lane) ==
    LET tm1 == IF lane \in DOMAIN tm.occupied_lanes
               THEN [tm EXCEPT !.occupied_lanes = Del(@, lane),
                               !.occupation_timestamps = Del(@, lane)]
               ELSE tm
    IN  IF tm1.waiting_queues[lane] # <<>>
        THEN [tm1 EXCEPT !.waiting_queues[lane] = Tail(@),
                         !.occupied_lanes = Put(@, lane, Head(tm1.waiting_queues[lane])),
                         !.occupation_timestamps = Put(@, lane, now)]
        ELSE tm1

release_lane(tm, lane) ==
    LET tm1 == IF lane \in DOMAIN tm.occupied_lanes
               THEN [tm EXCEPT !.occupied_lanes = Del(@, lane),
                               !.occupation_timestamps = Del(@, lane)]
               ELSE tm
    IN  IF tm1.waiting_queues[lane] # <<>>
        THEN [tm1 EXCEPT !.waiting_queues[lane] = Tail(@)]
        ELSE tm1

\* _remove_from_other_queues: the robot leaves every wait queue it is in
_remove_from_other_queues(tm, robot_id) ==
    [tm EXCEPT !.waiting_queues =
        [lane \in Lanes |-> IF InSeq(robot_id, @[lane])
                            THEN SeqRemove(@[lane], robot_id) ELSE @[lane]]]

\* _grant_access: no caller anywhere; request_lane reserves the lane itself
\* (lines 40-41) and does not come here.
_grant_access(tm, robot_id, lane, t) ==
    _remove_from_other_queues(
        [tm EXCEPT !.occupied_lanes = Put(@, lane, robot_id),
                   !.occupation_timestamps = Put(@, lane, t)], robot_id)

StaleLanes(tm, t) ==
    {lane \in DOMAIN tm.occupation_timestamps :
        t - tm.occupation_timestamps[lane] > StaleAfter}

RECURSIVE ReleaseAll(_, _)
ReleaseAll(tm, lanes) ==
    IF lanes = {} THEN tm
    ELSE LET lane == CHOOSE l \in lanes : TRUE
         IN  ReleaseAll(release_lane(tm, lane), lanes \ {lane})

_perform_periodic_checks(tm, t) ==
    IF t - tm.last_deadlock_check > CheckPeriod
    THEN ReleaseAll([tm EXCEPT !.last_deadlock_check = t], StaleLanes(tm, t))
    ELSE tm

_find_deadlocks(tm) == {}

RECURSIVE TimeoutAll(_, _)
TimeoutAll(tm, lanes) ==
    IF lanes = {} THEN tm
    ELSE LET lane == CHOOSE l \in lanes : TRUE
             logged == _log_event(tm, "TIMEOUT", tm.occupied_lanes[lane], lane)
         IN  TimeoutAll(release_lane(logged, lane), lanes \ {lane})

_resolve_issues(tm, t) == TimeoutAll(tm, StaleLanes(tm, t))

\* resolve_deadlocks releases a stale lane and then reads occupied_lanes[lane],
\* which is gone: KeyError.  The loop ends at the first stale lane it meets;
\* the iteration order of the dictionary decides which one that is.
DeadlockStale(tm, t) ==
    {lane \in DOMAIN tm.occupied_lanes :
        t - (IF lane \in DOMAIN tm.occupation_timestamps
             THEN tm.occupation_timestamps[lane] ELSE 0) > StaleAfter}

resolve_deadlocks(tm, t, first) ==
    IF DeadlockStale(tm, t) = {}
    THEN [tm |-> tm, exc |-> "none"]
    ELSE [tm |-> release_lane(tm, first), exc |-> "KeyError"]

NoQueues == [lane \in Lanes |-> <<>>]

clear_queues(tm) == [tm EXCEPT !.waiting_queues = NoQueues]

-----------------------------------------------------------------------------
(* Robot *)

\* Robot.__init__
NewRobot(robot_id, start_vertex_idx) ==
    [id |-> robot_id,
     current_vertex |-> start_vertex_idx,
     destination |-> NoVertex,
     path |-> <<>>,
     status |-> "idle",
     battery |-> BatteryFull,
     wait_start_time |-> NoTime,
     current_lane |-> None,
     progress |-> 0]

_calculate_path(r) ==
    IF r.destination # NoVertex
    THEN LET p == get_shortest_path(r.current_vertex, r.destination)
         IN  [r EXCEPT !.path = p,
                       !.status = IF p = <<>> THEN "error" ELSE @]
    ELSE r

\* Robot.assign_task without the status test of line 90.
AssignTaskAnyStatus(r, destination_idx) ==
    LET r1 == _calculate_path([r EXCEPT !.destination = destination_idx])
    IN  IF r1.path = <<>>
        THEN [robot |-> r1, ret |-> FALSE]
        ELSE [robot |-> [r1 EXCEPT !.progress = 0,
                                   !.current_lane = None,
                                   !.status = "moving",
                                   !.wait_start_time = NoTime],
              ret |-> TRUE]

\* Robot.assign_task: the robot after the call and what the call returns
assign_task(r, destination_idx) ==
    IF r.status \in {"charging", "error"}
    THEN [robot |-> r, ret |-> FALSE]
    ELSE LET r1 == _calculate_path([r EXCEPT !.destination = destination_idx])
         IN  IF r1.path = <<>>
             THEN [robot |-> r1, ret |-> FALSE]
             ELSE [robot |-> [r1 EXCEPT !.progress = 0,
                                        !.current_lane = None,
                                        !.status = "moving",
                                        !.wait_start_time = NoTime],
                   ret |-> TRUE]

\* The collision check without the look-ahead: it asks whether the robot has
\* reached the next vertex already, not whether this frame takes it there.
CheckCollisionNoLookahead(r, tm, delta_time) ==
    IF r.current_lane = None \/ Len(r.path) < 2
    THEN FALSE
    ELSE IF r.progress >= ProgressFull
         THEN is_lane_occupied(tm, <<r.path[1], r.path[2]>>)
         ELSE FALSE

_check_imminent_collision(r, tm, delta_time) ==
    IF r.current_lane = None \/ Len(r.path) < 2
    THEN FALSE
    ELSE LET next_lane == <<r.path[1], r.path[2]>>
             progress_in_1sec == r.progress + MovementSpeed * delta_time
         IN  IF progress_in_1sec >= ProgressFull
             THEN is_lane_occupied(tm, next_lane)
             ELSE FALSE

\* The movement with a hop that ends at the last vertex of the path instead
\* of its head.
PerformMovementToEnd(r, tm, delta_time) ==
    LET p == r.progress + delta_time * MovementSpeed
    IN  IF p >= ProgressFull
        THEN [robot |-> [r EXCEPT !.current_vertex = r.path[Len(r.path)],
                                  !.path = <<>>,
                                  !.progress = 0,
                                  !.current_lane = None,
                                  !.status = "idle"],
              tm |-> IF r.current_lane # None
                     THEN release_lane(tm, r.current_lane) ELSE tm,
              ret |-> TRUE]
        ELSE [robot |-> [r EXCEPT !.progress = p], tm |-> tm, ret |-> TRUE]

\* The movement with a battery that gains what it should lose.
PerformMovementGaining(r, tm, delta_time) ==
    LET p == r.progress + delta_time * MovementSpeed
        path1 == Tail(r.path)
    IN  IF p >= ProgressFull
        THEN [robot |-> [r EXCEPT !.current_vertex = r.path[1],
                                  !.path = path1,
                                  !.progress = 0,
                                  !.current_lane = None,
                                  !.status = IF path1 = <<>> THEN "idle" ELSE @],
              tm |-> IF r.current_lane # None
                     THEN release_lane(tm, r.current_lane) ELSE tm,
              ret |-> TRUE]
        ELSE [robot |-> [r EXCEPT !.progress = p,
                                  !.battery = @ + BatteryDrain * delta_time],
              tm |-> tm, ret |-> TRUE]

\* The movement with a hop that keeps the reservation of the lane it has left.
PerformMovementKeepLane(r, tm, delta_time) ==
    LET p == r.progress + delta_time * MovementSpeed
        path1 == Tail(r.path)
    IN  IF p >= ProgressFull
        THEN [robot |-> [r EXCEPT !.current_vertex = r.path[1],
                                  !.path = path1,
                                  !.progress = 0,
                                  !.current_lane = None,
                                  !.status = IF path1 = <<>> THEN "idle" ELSE @],
              tm |-> tm, ret |-> TRUE]
        ELSE [robot |-> [r EXCEPT !.progress = p,
                                  !.battery = IF @ - BatteryDrain * delta_time < 0
                                              THEN 0
                                              ELSE @ - BatteryDrain * delta_time],
              tm |-> tm, ret |-> TRUE]

\* lines 170-185: the movement itself, once the lane is held
PerformMovement(r, tm, delta_time) ==
    LET next_vertex == r.path[1]
        p == r.progress + delta_time * MovementSpeed
    IN  IF p >= ProgressFull
        THEN LET tm1 == IF r.current_lane # None
                        THEN release_lane(tm, r.current_lane) ELSE tm
                 path1 == Tail(r.path)
             IN  [robot |-> [r EXCEPT !.current_vertex = next_vertex,
                                      !.path = path1,
                                      !.progress = 0,
                                      !.current_lane = None,
                                      !.status = IF path1 = <<>> THEN "idle" ELSE @],
                  tm |-> tm1, ret |-> TRUE]
        ELSE [robot |-> [r EXCEPT !.progress = p,
                                  !.battery = IF @ - BatteryDrain * delta_time < 0
                                              THEN 0
                                              ELSE @ - BatteryDrain * delta_time],
              tm |-> tm, ret |-> TRUE]

_handle_movement(r, tm, delta_time, t) ==
    IF r.path = <<>>
    THEN [robot |-> r, tm |-> tm, ret |-> FALSE]
    ELSE LET lane == <<r.current_vertex, r.path[1]>>
         IN  IF r.current_lane # lane
             THEN CHOOSE res \in
                  { IF req.ret
                    THEN PerformMovement([r EXCEPT !.current_lane = lane,
                                                   !.progress = 0],
                                         req.tm, delta_time)
                    ELSE [robot |-> IF r.status # "waiting"
                                    THEN [r EXCEPT !.wait_start_time = t,
                                                   !.status = "waiting"]
                                    ELSE r,
                          tm |-> req.tm, ret |-> FALSE]
                    : req \in {request_lane(tm, r.id, lane, t)} } : TRUE
             ELSE PerformMovement(r, tm, delta_time)

\* "if self.wait_start_time": None and 0.0 are both false
Truthy(x) == x # NoTime /\ x # 0

_handle_waiting(r, current_time) ==
    IF Truthy(r.wait_start_time)
       /\ current_time - r.wait_start_time > MaxWaitTime
    THEN [robot |-> [_calculate_path(r) EXCEPT !.status = "moving"], ret |-> TRUE]
    ELSE [robot |-> r, ret |-> FALSE]

\* Robot.update with a stop that ends when the lane ahead is free again.
UpdateResuming(r, tm, delta_time, t) ==
    LET r0 == IF r.status = "emergency_stop" THEN [r EXCEPT !.status = "moving"] ELSE r
        r1 == IF _check_imminent_collision(r0, tm, delta_time)
              THEN [r0 EXCEPT !.status = "emergency_stop"] ELSE r0
    IN  IF r1.status = "charging"
        THEN [robot |-> r1, tm |-> tm, ret |-> FALSE, exc |-> "AttributeError"]
        ELSE IF r1.status = "error"
        THEN [robot |-> r1, tm |-> tm, ret |-> FALSE, exc |-> "none"]
        ELSE IF r1.battery < MinBattery
        THEN [robot |-> r1, tm |-> tm, ret |-> FALSE, exc |-> "AttributeError"]
        ELSE IF r1.status = "moving"
        THEN CHOOSE res \in
             { [robot |-> IF _check_imminent_collision(m.robot, m.tm, delta_time)
                          THEN [m.robot EXCEPT !.status = "emergency_stop"]
                          ELSE m.robot,
                tm |-> m.tm, ret |-> m.ret, exc |-> "none"]
               : m \in {_handle_movement(r1, tm, delta_time, t)} } : TRUE
        ELSE IF r1.status = "waiting"
        THEN LET w == _handle_waiting(r1, t)
             IN  [robot |-> w.robot, tm |-> tm, ret |-> w.ret, exc |-> "none"]
        ELSE [robot |-> r1, tm |-> tm, ret |-> FALSE, exc |-> "none"]

\* Robot.update.  _handle_charging and _handle_low_battery are not defined
\* anywhere in the class: reaching either call raises AttributeError, and the
\* tick ends there with what it has changed so far.
update(r, tm, delta_time, t) ==
    LET r1 == IF _check_imminent_collision(r, tm, delta_time)
              THEN [r EXCEPT !.status = "emergency_stop"] ELSE r
    IN  IF r1.status = "charging"
        THEN [robot |-> r1, tm |-> tm, ret |-> FALSE, exc |-> "AttributeError"]
        ELSE IF r1.status = "error"
        THEN [robot |-> r1, tm |-> tm, ret |-> FALSE, exc |-> "none"]
        ELSE IF r1.battery < MinBattery
        THEN [robot |-> r1, tm |-> tm, ret |-> FALSE, exc |-> "AttributeError"]
        ELSE IF r1.status = "moving"
        THEN CHOOSE res \in
             { [robot |-> IF _check_imminent_collision(m.robot, m.tm, delta_time)
                          THEN [m.robot EXCEPT !.status = "emergency_stop"]
                          ELSE m.robot,
                tm |-> m.tm, ret |-> m.ret, exc |-> "none"]
               : m \in {_handle_movement(r1, tm, delta_time, t)} } : TRUE
        ELSE IF r1.status = "waiting"
        THEN LET w == _handle_waiting(r1, t)
             IN  [robot |-> w.robot, tm |-> tm, ret |-> w.ret, exc |-> "none"]
        ELSE [robot |-> r1, tm |-> tm, ret |-> FALSE, exc |-> "none"]

-----------------------------------------------------------------------------
(* FleetManager *)

\* get_robot: the position in the list of the first robot with this id, 0 if none
get_robot(rs, robot_id) ==
    IF \E i \in 1 .. Len(rs) : rs[i].id = robot_id
    THEN Min({i \in 1 .. Len(rs) : rs[i].id = robot_id})
    ELSE 0

Failure(msg) == [success |-> FALSE, message |-> msg, estimated_time |-> 0, path |-> <<>>]

\* FleetManager.assign_task: the robot list after the call and the result
fleet_assign_task(rs, robot_id, destination_idx) ==
    LET i == get_robot(rs, robot_id)
    IN  IF i = 0
        THEN [robots |-> rs, result |-> Failure("not found")]
        ELSE IF rs[i].status = "charging"
        THEN [robots |-> rs, result |-> Failure("charging")]
        ELSE LET path == get_shortest_path(rs[i].current_vertex, destination_idx)
             IN  IF path = <<>>
                 THEN [robots |-> rs, result |-> Failure("no path")]
                 ELSE LET a == assign_task(rs[i], destination_idx)
                      IN  [robots |-> [rs EXCEPT ![i] = a.robot],
                           result |-> [success |-> a.ret,
                                       message |-> IF a.ret THEN "succeeded"
                                                   ELSE "failed",
                                       estimated_time |-> Len(path) * 2,
                                       path |-> path]]

RECURSIVE UpdateFrom(_, _, _, _, _)
\* update_robots: robot.update for each robot of the list in turn, from
\* position i on; an exception raised by one update ends the loop.
\* (CHOOSE res \in {e(u) : u \in {x}} : TRUE is e(x), with x evaluated once)
UpdateFrom(rs, tm, i, delta_time, t) ==
    IF i > Len(rs)
    THEN [robots |-> rs, tm |-> tm, exc |-> "none"]
    ELSE CHOOSE res \in
             { IF u.exc # "none"
               THEN [robots |-> [rs EXCEPT ![i] = u.robot], tm |-> u.tm, exc |-> u.exc]
               ELSE UpdateFrom([rs EXCEPT ![i] = u.robot], u.tm, i + 1, delta_time, t)
               : u \in {update(rs[i], tm, delta_time, t)} } : TRUE

update_robots(rs, tm, delta_time, t) == UpdateFrom(rs, tm, 1, delta_time, t)

-----------------------------------------------------------------------------
(* State and actions *)

NoThreads == <<>>

Op(op, id, lane, ret, exc) ==
    [op |-> op, id |-> id, lane |-> lane, ret |-> ret, exc |-> exc]

\* FleetManager.__init__, TrafficManager.__init__
Init ==
    /\ robots = <<>>
    /\ next_id = 1
    /\ occupied_lanes = EmptyDict
    /\ waiting_queues = NoQueues
    /\ occupation_timestamps = EmptyDict
    /\ last_deadlock_check = now
    /\ new_events = <<>>
    /\ last = Op("init", 0, None, FALSE, "none")
    /\ tasks = 0
    /\ trail = <<>>
    /\ threads = NoThreads

SetTM(tm) ==
    /\ occupied_lanes' = tm.occupied_lanes
    /\ waiting_queues' = tm.waiting_queues
    /\ occupation_timestamps' = tm.occupation_timestamps
    /\ last_deadlock_check' = tm.last_deadlock_check
    /\ new_events' = tm.event_log

tmvars == <<occupied_lanes, waiting_queues, occupation_timestamps, last_deadlock_check>>

Past(ts) ==
    IF ts = NoTime THEN NoTime
    ELSE IF ts - ClockStep < Oldest THEN Oldest ELSE ts - ClockStep

\* The trail of a robot: the path it was given at its last successful
\* assign_task (Robot.path at line 95), the values current_vertex has been
\* set to since (line 173), and whether that path has been given up since: by
\* the replanning of _handle_waiting (line 191) or by a rejected assign_task
\* that overwrote it.
\* Nothing is recorded any more once the path has been given up.
NoTrail == [plan |-> <<>>, visited |-> <<>>, replanned |-> FALSE]
GivenUp == [plan |-> <<>>, visited |-> <<>>, replanned |-> TRUE]

TrailAssign(tr, old, new, ret) ==
    IF ret THEN [plan |-> new.path, visited |-> <<>>, replanned |-> FALSE]
    ELSE IF new # old THEN GivenUp
    ELSE tr

TrailTick(tr, old, new) ==
    IF tr.replanned \/ (old.status = "waiting" /\ new.status = "moving")
    THEN GivenUp
    ELSE IF Len(new.path) < Len(old.path)
    THEN [tr EXCEPT !.visited = Append(@, new.current_vertex)]
    ELSE tr

\* ClockStep half seconds pass between two calls.
AdvanceTime ==
    /\ robots' = [i \in 1 .. Len(robots) |->
                     [robots[i] EXCEPT !.wait_start_time = Past(@)]]
    /\ occupation_timestamps' =
           [lane \in DOMAIN occupation_timestamps |-> Past(occupation_timestamps[lane])]
    /\ last_deadlock_check' = Past(last_deadlock_check)
    /\ new_events' = <<>>
    /\ last' = Op("time_passes", 0, None, TRUE, "none")
    /\ UNCHANGED <<next_id, occupied_lanes, waiting_queues, threads, tasks, trail>>

\* FleetManager.spawn_robot
SpawnRobot(vertex_idx) ==
    /\ Len(robots) < MaxRobots
    /\ robots' = Append(robots, NewRobot(next_id, vertex_idx))
    /\ next_id' = next_id + 1
    /\ new_events' = <<>>
    /\ last' = Op("spawn_robot", next_id, None, TRUE, "none")
    /\ trail' = Append(trail, NoTrail)
    /\ UNCHANGED <<tmvars, threads, tasks>>

\* FleetManager.assign_task
FleetAssignStep(robot_id, destination_idx) ==
    LET a == fleet_assign_task(robots, robot_id, destination_idx)
    IN  /\ robots' = a.robots
        /\ new_events' = <<>>
        /\ last' = Op("fleet_assign_task", robot_id, None, a.result.success, "none")
        /\ trail' = [i \in 1 .. Len(robots) |->
                        IF i = get_robot(robots, robot_id)
                        THEN TrailAssign(trail[i], robots[i], a.robots[i],
                                         a.result.success)
                        ELSE trail[i]]
        /\ UNCHANGED <<next_id, tmvars, threads>>

\* the same, counted against the budget of tasks
FleetAssignTask(robot_id, destination_idx) ==
    /\ tasks < MaxTasks
    /\ tasks' = tasks + 1
    /\ FleetAssignStep(robot_id, destination_idx)

\* Robot.assign_task, called on the robot itself
RobotAssignTask(i, destination_idx) ==
    LET a == assign_task(robots[i], destination_idx)
    IN  /\ tasks < MaxTasks
        /\ tasks' = tasks + 1
        /\ robots' = [robots EXCEPT ![i] = a.robot]
        /\ new_events' = <<>>
        /\ last' = Op("assign_task", robots[i].id, None, a.ret, "none")
        /\ trail' = [trail EXCEPT ![i] = TrailAssign(@, robots[i], a.robot, a.ret)]
        /\ UNCHANGED <<next_id, tmvars, threads>>

\* A tick that leaves a robot in the middle of a lane drains its battery; the
\* model stops taking such ticks once a battery is MaxDrain below full.
TickAllowed(i, delta_time) ==
    \/ delta_time = 0
    \/ delta_time >= ProgressFull
    \/ robots[i].battery > BatteryFull - MaxDrain * BatteryDrain

\* A tick that also wakes every other waiting robot.
UpdateRobotWaking(i, delta_time) ==
    \E u \in {update(robots[i], TM, delta_time, now)} :
        /\ TickAllowed(i, delta_time)
        /\ robots' = [j \in 1 .. Len(robots) |->
                         IF j = i THEN u.robot
                         ELSE IF robots[j].status = "waiting"
                         THEN [robots[j] EXCEPT !.status = "moving"]
                         ELSE robots[j]]
        /\ SetTM(u.tm)
        /\ last' = Op("update", robots[i].id, None, u.ret, u.exc)
        /\ trail' = [trail EXCEPT ![i] = TrailTick(@, robots[i], u.robot)]
        /\ UNCHANGED <<next_id, threads, tasks>>

\* Robot.update of one robot
UpdateRobot(i, delta_time) ==
    \E u \in {update(robots[i], TM, delta_time, now)} :
        /\ TickAllowed(i, delta_time)
        /\ robots' = [robots EXCEPT ![i] = u.robot]
        /\ SetTM(u.tm)
        /\ last' = Op("update", robots[i].id, None, u.ret, u.exc)
        /\ trail' = [trail EXCEPT ![i] = TrailTick(@, robots[i], u.robot)]
        /\ UNCHANGED <<next_id, threads, tasks>>

\* FleetManager.update_robots
UpdateRobotsStep(delta_time) ==
    \E u \in {update_robots(robots, TM, delta_time, now)} :
        /\ robots # <<>>
        /\ robots' = u.robots
        /\ SetTM(u.tm)
        /\ last' = Op("update_robots", 0, None, TRUE, u.exc)
        /\ trail' = [i \in 1 .. Len(robots) |->
                        TrailTick(trail[i], robots[i], u.robots[i])]
        /\ UNCHANGED <<next_id, threads, tasks>>

\* the same, in the frames the model takes
UpdateRobots(delta_time) ==
    /\ \A i \in 1 .. Len(robots) : TickAllowed(i, delta_time)
    /\ UpdateRobotsStep(delta_time)

\* TrafficManager._perform_periodic_checks
PerformPeriodicChecks ==
    /\ SetTM(_perform_periodic_checks(TM, now))
    /\ last' = Op("_perform_periodic_checks", 0, None, TRUE, "none")
    /\ UNCHANGED <<robots, next_id, threads, tasks, trail>>

\* TrafficManager._resolve_issues
ResolveIssues ==
    /\ SetTM(_resolve_issues(TM, now))
    /\ last' = Op("_resolve_issues", 0, None, TRUE, "none")
    /\ UNCHANGED <<robots, next_id, threads, tasks, trail>>

\* TrafficManager.resolve_deadlocks
ResolveDeadlocks ==
    \E first \in IF DeadlockStale(TM, now) = {} THEN {None} ELSE DeadlockStale(TM, now) :
        LET d == resolve_deadlocks(TM, now, first)
        IN  /\ SetTM(d.tm)
            /\ last' = Op("resolve_deadlocks", 0, first, TRUE, d.exc)
            /\ UNCHANGED <<robots, next_id, threads, tasks, trail>>

\* TrafficManager.request_lane, called directly
RequestLane(robot_id, lane) ==
    LET q == request_lane(TM, robot_id, lane, now)
    IN  /\ SetTM(q.tm)
        /\ last' = Op("request_lane", robot_id, lane, q.ret, "none")
        /\ UNCHANGED <<robots, next_id, threads, tasks, trail>>

\* TrafficManager.release_lane, called directly
ReleaseLane(lane) ==
    /\ SetTM(release_lane(TM, lane))
    /\ last' = Op("release_lane", 0, lane, TRUE, "none")
    /\ UNCHANGED <<robots, next_id, threads, tasks, trail>>

\* TrafficManager.clear_queues
ClearQueues ==
    /\ SetTM(clear_queues(TM))
    /\ last' = Op("clear_queues", 0, None, TRUE, "none")
    /\ UNCHANGED <<robots, next_id, threads, tasks, trail>>

Spawn == \E v \in Vertices : SpawnRobot(v)
FleetAssign == \E id \in 1 .. MaxRobots, d \in Vertices : FleetAssignTask(id, d)
RobotAssign == \E i \in 1 .. Len(robots), d \in Vertices : RobotAssignTask(i, d)
Tick == \E dt \in FrameTimes : UpdateRobots(dt)
TickOne == \E i \in 1 .. Len(robots), dt \in DeltaTimes : UpdateRobot(i, dt)

\* The fleet as main.py and fleet_gui.py drive it: robots are spawned, tasks
\* are assigned through the fleet manager (or on the robot, Robot.assign_task
\* being public), and every frame calls update_robots.
Next ==
    \/ Spawn
    \/ FleetAssign
    \/ RobotAssign
    \/ Tick
    \/ AdvanceTime

Spec == Init /\ [][Next]_vars

\* The same fleet with the arbiter's reclamation of stale lanes run between
\* frames.
ReclaimNext ==
    \/ Spawn
    \/ FleetAssign
    \/ Tick
    \/ AdvanceTime
    \/ PerformPeriodicChecks

ReclaimSpec == Init /\ [][ReclaimNext]_vars

\* Robots ticked one at a time (Robot.update called on single robots).
StepNext ==
    \/ Spawn
    \/ FleetAssign
    \/ TickOne
    \/ AdvanceTime

StepSpec == Init /\ [][StepNext]_vars

\* Robots ticked one at a time (Robot.update called on single robots), in
\* frames that follow each other faster than any timeout.
TurnNext ==
    \/ Spawn
    \/ FleetAssign
    \/ TickOne

TurnSpec == Init /\ [][TurnNext]_vars

\* Robot._handle_waiting on its own: one robot that is waiting, at any vertex
\* and with any destination and any one-vertex path left, is ticked while
\* time passes.
WaitingRobots ==
    {[NewRobot(1, v) EXCEPT !.destination = d,
                            !.path = <<w>>,
                            !.status = "waiting",
                            !.wait_start_time = now] : v, d, w \in Vertices}

WaitInit ==
    /\ robots \in {<<r>> : r \in WaitingRobots}
    /\ next_id = 2
    /\ occupied_lanes = EmptyDict
    /\ waiting_queues = NoQueues
    /\ occupation_timestamps = EmptyDict
    /\ last_deadlock_check = now
    /\ new_events = <<>>
    /\ last = Op("init", 0, None, FALSE, "none")
    /\ tasks = 0
    /\ trail = <<GivenUp>>
    /\ threads = NoThreads

WaitNext ==
    \/ TickOne
    \/ AdvanceTime

WaitSpec == WaitInit /\ [][WaitNext]_vars

\* The arbiter alone, called by agents 1 .. MaxRobots for the lanes between
\* vertices 0 and 1 and the lane from vertex 1 to itself.
ArbLanes == {<<0, 1>>, <<1, 0>>, <<1, 1>>}

ArbNext ==
    \/ \E id \in 1 .. MaxRobots, lane \in ArbLanes : RequestLane(id, lane)
    \/ \E lane \in ArbLanes : ReleaseLane(lane)
    \/ PerformPeriodicChecks
    \/ ResolveIssues
    \/ ResolveDeadlocks
    \/ ClearQueues
    \/ AdvanceTime

ArbSpec == Init /\ [][ArbNext]_vars

\* The arbiter called by agents 1 .. MaxRobots for two lanes that follow each
\* other, so that each agent can hold one and queue for the other.
ChainLanes == {<<0, 1>>, <<1, 2>>}

ChainNext ==
    \/ \E id \in 1 .. MaxRobots, lane \in ChainLanes : RequestLane(id, lane)
    \/ \E lane \in ChainLanes : ReleaseLane(lane)
    \/ ResolveIssues
    \/ AdvanceTime

ChainSpec == Init /\ [][ChainNext]_vars

\* The fleet with every task assigned once, to a robot that has none yet, and
\* frames that keep coming: the GUI loop calls update_robots on every frame and
\* the wall clock keeps running.
AssignFresh ==
    \E id \in 1 .. MaxRobots, d \in Vertices :
        /\ get_robot(robots, id) # 0
        /\ robots[get_robot(robots, id)].destination = NoVertex
        /\ FleetAssignTask(id, d)

\* a frame of positive length: a robot on a lane advances in every frame
FairTick == \E dt \in DeltaTimes \ {0} : UpdateRobots(dt)

FairNext ==
    \/ Spawn
    \/ AssignFresh
    \/ FairTick
    \/ AdvanceTime

FairSpec == Init /\ [][FairNext]_vars /\ WF_vars(FairTick) /\ WF_vars(AdvanceTime)

\* One robot kept busy until its battery is low: it is given task after task
\* and every frame is half a second or a second long, so that each half-second
\* frame on a lane drains the battery.
LoneSpawn == Len(robots) = 0 /\ Spawn
LoneAssign == \E d \in Vertices : FleetAssignStep(1, d) /\ UNCHANGED tasks
LoneTick == \E dt \in DeltaTimes \ {0} : UpdateRobotsStep(dt)

DrainNext ==
    \/ LoneSpawn
    \/ LoneAssign
    \/ LoneTick

DrainSpec == Init /\ [][DrainNext]_vars

-----------------------------------------------------------------------------
(* request_lane called from two threads at once.  TrafficManager takes no  *)
(* lock, so the lines of the two calls interleave; a thread is at the line *)
(* it executes next.                                                       *)

Thread(robot_id, lane) == [id |-> robot_id, lane |-> lane, pc |-> "line34", ret |-> FALSE]

TwoWayLanes == {lane \in Edges : Rev(lane) \in Edges /\ lane # Rev(lane)}

\* Agents 1 and 2 ask for a free two-way lane and for its reverse; a third
\* lane may be held by either of them already.
ConcInit ==
    /\ robots = <<>>
    /\ next_id = 1
    /\ waiting_queues = NoQueues
    /\ last_deadlock_check = now
    /\ new_events = <<>>
    /\ last = Op("init", 0, None, FALSE, "none")
    /\ tasks = 0
    /\ trail = <<>>
    /\ \E lane \in TwoWayLanes : threads = <<Thread(1, lane), Thread(2, Rev(lane))>>
    /\ \E held \in SUBSET ((Edges \ TwoWayLanes) \X (1 .. 2)) :
          /\ \A a, b \in held : a[1] = b[1] => a = b
          /\ occupied_lanes = [lane \in {h[1] : h \in held} |->
                                  (CHOOSE h \in held : h[1] = lane)[2]]
          /\ occupation_timestamps = [lane \in {h[1] : h \in held} |-> now]

\* line 34: if self.detect_collisions(lane): log BLOCKED, return False
ThreadCollisionCheck(t) ==
    /\ threads[t].pc = "line34"
    /\ IF detect_collisions_lane(TM, threads[t].lane) # {}
       THEN /\ threads' = [threads EXCEPT ![t].pc = "done", ![t].ret = FALSE]
            /\ new_events' = _log_event(TM, "BLOCKED", threads[t].id,
                                        threads[t].lane).event_log
       ELSE /\ threads' = [threads EXCEPT ![t].pc = "line39"]
            /\ UNCHANGED new_events
    /\ UNCHANGED <<robots, next_id, tmvars, last, tasks, trail>>

\* line 39: if lane not in occupied_lanes and reverse not in occupied_lanes
ThreadAvailableCheck(t) ==
    /\ threads[t].pc = "line39"
    /\ threads' = [threads EXCEPT ![t].pc =
          IF threads[t].lane \notin DOMAIN occupied_lanes
             /\ Rev(threads[t].lane) \notin DOMAIN occupied_lanes
          THEN "line40" ELSE "line45"]
    /\ UNCHANGED <<robots, next_id, tmvars, new_events, last, tasks, trail>>

\* line 40: self.occupied_lanes[lane] = robot_id
ThreadReserve(t) ==
    /\ threads[t].pc = "line40"
    /\ occupied_lanes' = Put(occupied_lanes, threads[t].lane, threads[t].id)
    /\ threads' = [threads EXCEPT ![t].pc = "line41"]
    /\ UNCHANGED <<robots, next_id, waiting_queues, occupation_timestamps,
                   last_deadlock_check, new_events, last, tasks, trail>>

\* lines 41-42: self.occupation_timestamps[lane] = current_time; return True
ThreadStamp(t) ==
    /\ threads[t].pc = "line41"
    /\ occupation_timestamps' = Put(occupation_timestamps, threads[t].lane, now)
    /\ threads' = [threads EXCEPT ![t].pc = "done", ![t].ret = TRUE]
    /\ UNCHANGED <<robots, next_id, occupied_lanes, waiting_queues,
                   last_deadlock_check, new_events, last, tasks, trail>>

\* lines 45-49: enqueue unless already queued; return False
ThreadEnqueue(t) ==
    /\ threads[t].pc = "line45"
    /\ waiting_queues' = Enqueue(TM, threads[t].id, threads[t].lane).waiting_queues
    /\ threads' = [threads EXCEPT ![t].pc = "done", ![t].ret = FALSE]
    /\ UNCHANGED <<robots, next_id, occupied_lanes, occupation_timestamps,
                   last_deadlock_check, new_events, last, tasks, trail>>

ConcNext ==
    \/ \E t \in 1 .. Len(threads) : ThreadCollisionCheck(t)
    \/ \E t \in 1 .. Len(threads) : ThreadAvailableCheck(t)
    \/ \E t \in 1 .. Len(threads) : ThreadReserve(t)
    \/ \E t \in 1 .. Len(threads) : ThreadStamp(t)
    \/ \E t \in 1 .. Len(threads) : ThreadEnqueue(t)

ConcSpec == ConcInit /\ [][ConcNext]_vars

\* Robots ticked one at a time in whole frames, each given one task, while
\* the arbiter is also called directly and time passes.
WholeTickOne == \E i \in 1 .. Len(robots), dt \in FrameTimes : UpdateRobot(i, dt)

SharedNext ==
    \/ Spawn
    \/ AssignFresh
    \/ WholeTickOne
    \/ AdvanceTime
    \/ PerformPeriodicChecks
    \/ \E lane \in ArbLanes : ReleaseLane(lane)
    \/ \E id \in 1 .. MaxRobots : RequestLane(id, <<1, 1>>)

SharedSpec == Init /\ [][SharedNext]_vars

-----------------------------------------------------------------------------
(* spawn_robot called from two threads at once.  The Robot is built from   *)
(* self.next_id at line 31, before the lock is taken at line 34; the lock  *)
(* covers the append (line 36) and the increment (line 38) only.           *)

SpawnThread == [pc |-> "line31", robot |-> None]

SpawnRaceInit ==
    /\ robots = <<>>
    /\ next_id = 1
    /\ occupied_lanes = EmptyDict
    /\ waiting_queues = NoQueues
    /\ occupation_timestamps = EmptyDict
    /\ last_deadlock_check = now
    /\ new_events = <<>>
    /\ last = Op("init", 0, None, FALSE, "none")
    /\ tasks = 0
    /\ trail = <<>>
    /\ threads = <<SpawnThread, SpawnThread>>

\* line 31: robot = Robot(self.next_id, vertex_idx, nav_graph)
ThreadCreateRobot(t, vertex_idx) ==
    /\ threads[t].pc = "line31"
    /\ Len(robots) < MaxRobots
    /\ threads' = [threads EXCEPT ![t] = [pc |-> "line34",
                                          robot |-> NewRobot(next_id, vertex_idx)]]
    /\ UNCHANGED <<robots, next_id, tmvars, new_events, last, tasks, trail>>

\* lines 34-36: with self._lock: self.robots.append(robot)
ThreadAppend(t) ==
    /\ threads[t].pc = "line34"
    /\ \A u \in 1 .. Len(threads) : threads[u].pc # "line38"
    /\ robots' = Append(robots, threads[t].robot)
    /\ trail' = Append(trail, NoTrail)
    /\ threads' = [threads EXCEPT ![t].pc = "line38"]
    /\ UNCHANGED <<next_id, tmvars, new_events, last, tasks>>

\* lines 38-42: self.next_id += 1; the lock is released; return robot
ThreadIncrement(t) ==
    /\ threads[t].pc = "line38"
    /\ next_id' = next_id + 1
    /\ last' = Op("spawn_robot", threads[t].robot.id, None, TRUE, "none")
    /\ threads' = [threads EXCEPT ![t] = SpawnThread]
    /\ UNCHANGED <<robots, tmvars, new_events, tasks, trail>>

SpawnRaceNext ==
    \/ \E t \in 1 .. Len(threads), v \in Vertices : ThreadCreateRobot(t, v)
    \/ \E t \in 1 .. Len(threads) : ThreadAppend(t)
    \/ \E t \in 1 .. Len(threads) : ThreadIncrement(t)

SpawnRaceSpec == SpawnRaceInit /\ [][SpawnRaceNext]_vars

-----------------------------------------------------------------------------
(* Properties *)

RobotIdx == 1 .. Len(robots)

Holds(i) == robots[i].current_lane # None

OwnedLanes(robot_id) ==
    {lane \in DOMAIN occupied_lanes : occupied_lanes[lane] = robot_id}

\* C1: in every reachable state the reservation map never holds a lane
\* together with its reverse: detect_collisions() returns the empty list.
C1_NoLaneWithReverse == detect_collisions(TM) = {}

\* C2: no two distinct robots have current_lane set to the same lane, or to a
\* lane and its reverse, at the same time, also after stale reservations have
\* been reclaimed.
C2_NoSharedLane ==
    \A i, j \in RobotIdx :
        (i # j /\ Holds(i) /\ Holds(j)) =>
            /\ robots[i].current_lane # robots[j].current_lane
            /\ robots[i].current_lane # Rev(robots[j].current_lane)

\* C3: when two agents call request_lane at the same time, one for a free
\* lane and the other for its reverse, then once both calls have returned
\* exactly one of them returned True and the other agent is in a wait queue.
C3_GrantExclusive ==
    (threads # NoThreads /\ \A t \in 1 .. Len(threads) : threads[t].pc = "done") =>
        \E t, u \in 1 .. Len(threads) :
            /\ t # u
            /\ threads[t].ret
            /\ ~threads[u].ret
            /\ \E lane \in Lanes : InSeq(threads[u].id, waiting_queues[lane])

\* C4: an assign_task call on a robot that holds a lane reservation (status
\* moving, current_lane set) releases that lane: after the call the
\* reservation map holds no lane of that robot other than its current_lane.
C4_AssignReleasesLane ==
    [][\A i \in RobotIdx :
          (/\ last'.op \in {"assign_task", "fleet_assign_task"}
           /\ last'.id = robots[i].id
           /\ robots[i].status = "moving"
           /\ Holds(i)
           /\ robots[i].current_lane \in OwnedLanes(robots[i].id))
          => \A lane \in DOMAIN occupied_lanes' :
                occupied_lanes'[lane] = robots[i].id
                    => robots'[i].current_lane = lane]_vars

\* C5: every robot id owns at most one entry of the reservation map, and the
\* lane a moving robot owns is (current_vertex, path[0]).
C5_SingleHolding ==
    \A i \in RobotIdx :
        /\ Cardinality(OwnedLanes(robots[i].id)) <= 1
        /\ (robots[i].status = "moving" /\ OwnedLanes(robots[i].id) # {}) =>
              /\ robots[i].path # <<>>
              /\ OwnedLanes(robots[i].id) =
                    {<<robots[i].current_vertex, robots[i].path[1]>>}

\* C6: in the fleet driven by update_robots, a reservation its holder never
\* releases is removed once it is older than 5 seconds, at the 2-second
\* cadence of the check: when a frame's update_robots has returned, no
\* reservation is older than 5 + 2 seconds.
C6_StaleReclaimedByTicks ==
    last.op = "update_robots" =>
        \A lane \in DOMAIN occupation_timestamps :
            now - occupation_timestamps[lane] <= StaleAfter + CheckPeriod

Assigned(i) == i <= Len(robots) /\ robots[i].destination # NoVertex

Arrived(i) ==
    /\ i <= Len(robots)
    /\ robots[i].status = "idle"
    /\ robots[i].current_vertex = robots[i].destination

\* C7: with frames that keep coming and no further assignment, every robot
\* whose assign_task succeeded eventually is idle at its destination.
C7_EveryTaskCompletes ==
    \A i \in 1 .. MaxRobots : [](Assigned(i) => <>Arrived(i))

\* C8: release_lane of a lane that is not reserved changes nothing in the
\* arbiter: the reservation map, the timestamps and every wait queue stay as
\* they were.
C8_ReleaseUnreservedNoOp ==
    [][(last'.op = "release_lane" /\ last'.lane \notin DOMAIN occupied_lanes)
          => UNCHANGED <<occupied_lanes, occupation_timestamps, waiting_queues>>]_vars

\* C9: whenever request_lane(agent, L) returns False, whether L or its
\* reverse is the reserved one, agent is in L's wait queue after the call.
C9_DeniedIsQueued ==
    (last.op = "request_lane" /\ ~last.ret) =>
        InSeq(last.id, waiting_queues[last.lane])

\* C10: no agent id occurs twice in the wait queue of a lane; a second denied
\* request_lane by the same agent for the same lane adds no second entry.
C10_QueueNoDuplicates ==
    \A lane \in Lanes :
        \A i, j \in 1 .. Len(waiting_queues[lane]) :
            i # j => waiting_queues[lane][i] # waiting_queues[lane][j]

\* C11: whenever request_lane(agent, L) returns True, the agent is in no wait
\* queue of any lane right after the call.
C11_GrantLeavesNoWait ==
    (last.op = "request_lane" /\ last.ret) =>
        \A lane \in Lanes : ~InSeq(last.id, waiting_queues[lane])

WaitsOn(robot_id) == {lane \in Lanes : InSeq(robot_id, waiting_queues[lane])}

\* C12: every agent id is in the wait queue of at most one lane, and that lane
\* is the lane (current_vertex, path[0]) the agent needs next.
C12_SingleWait ==
    \A i \in RobotIdx :
        /\ Cardinality(WaitsOn(robots[i].id)) <= 1
        /\ WaitsOn(robots[i].id) # {} =>
              /\ robots[i].path # <<>>
              /\ WaitsOn(robots[i].id) =
                    {<<robots[i].current_vertex, robots[i].path[1]>>}

\* C13: FleetManager.assign_task for an existing robot that is not charging,
\* when get_shortest_path returns no path, returns success = False, path = []
\* and estimated_time = 0, and the robot's status is error after the call.
C13_NoPathSetsError ==
    [][\A id \in 1 .. MaxRobots, d \in Vertices :
          LET i == get_robot(robots, id)
              result == fleet_assign_task(robots, id, d).result
          IN  (/\ i # 0
               /\ robots[i].status # "charging"
               /\ get_shortest_path(robots[i].current_vertex, d) = <<>>
               /\ FleetAssignTask(id, d))
              => /\ result.success = FALSE
                 /\ result.path = <<>>
                 /\ result.estimated_time = 0
                 /\ robots'[i].status = "error"]_vars

\* C14: an assign_task call that is rejected, through the fleet manager or on
\* the robot, leaves every field of every robot and the arbiter as they were.
C14_RejectionChangesNothing ==
    [][(last'.op \in {"assign_task", "fleet_assign_task"} /\ ~last'.ret)
          => UNCHANGED <<robots, tmvars>>]_vars

IsPrefix(s, t) == Len(s) <= Len(t) /\ \A k \in 1 .. Len(s) : s[k] = t[k]

Followed(i) == trail[i].plan # <<>> /\ ~trail[i].replanned

\* C15: a robot whose assign_task succeeded and that has been neither
\* reassigned nor replanned since arrives at the vertices of the path
\* get_shortest_path returned at the assignment, in that order and each once;
\* when it is idle it has arrived at all of them and stands at the last one.
C15_FollowsPlannedPath ==
    \A i \in RobotIdx :
        Followed(i) =>
            /\ trail[i].plan[Len(trail[i].plan)] = robots[i].destination
            /\ IsPrefix(trail[i].visited, trail[i].plan)
            /\ trail[i].plan = trail[i].visited \o robots[i].path
            /\ \A j, k \in 1 .. Len(trail[i].visited) :
                  j # k => trail[i].visited[j] # trail[i].visited[k]
            /\ trail[i].visited # <<>> =>
                  robots[i].current_vertex = trail[i].visited[Len(trail[i].visited)]
            /\ robots[i].status = "idle" =>
                  /\ trail[i].visited = trail[i].plan
                  /\ robots[i].current_vertex = robots[i].destination

\* A robot that has followed a path of three vertices to its end.
C15_Witness ==
    \E i \in RobotIdx :
        /\ Followed(i)
        /\ Len(trail[i].plan) = 3
        /\ trail[i].visited = trail[i].plan
        /\ robots[i].status = "idle"

\* C16: in every reachable state 0 <= battery <= 100 for every robot, also
\* when a robot is kept moving until its battery is used up.
C16_BatteryInRange ==
    \A i \in RobotIdx : 0 <= robots[i].battery /\ robots[i].battery <= BatteryFull

\* A robot that has moved until its battery is below min_battery.
C16_Witness == \E i \in RobotIdx : robots[i].battery < MinBattery

\* A tick in which robot i, moving, completes a hop: line 174 is the only
\* place where a tick shortens the path of a moving robot.
HopCompleted(i) ==
    /\ last'.op \in {"update", "update_robots"}
    /\ robots[i].status = "moving"
    /\ Len(robots'[i].path) < Len(robots[i].path)

\* C17: after every tick 0 <= progress < 1 for every robot; and a tick in
\* which a robot completes a hop sets current_vertex to the next vertex, pops
\* the head of the path, leaves the robot without a reservation of the lane it
\* moved on, clears current_lane, resets progress to 0, and sets status to
\* idle exactly when the path is now empty.
C17_ProgressAndHop ==
    /\ [](\A i \in RobotIdx :
            0 <= robots[i].progress /\ robots[i].progress < ProgressFull)
    /\ [][\A i \in RobotIdx :
            HopCompleted(i) =>
                LET lane == <<robots[i].current_vertex, robots[i].path[1]>>
                IN  /\ robots'[i].current_vertex = robots[i].path[1]
                    /\ robots'[i].path = Tail(robots[i].path)
                    /\ \/ lane \notin DOMAIN occupied_lanes'
                       \/ occupied_lanes'[lane] # robots[i].id
                    /\ lane \notin DOMAIN occupied_lanes' <=>
                          lane \notin DOMAIN occupation_timestamps'
                    /\ robots'[i].current_lane = None
                    /\ robots'[i].progress = 0
                    /\ robots'[i].status = "idle" <=> robots'[i].path = <<>>
                    /\ robots'[i].status \in {"idle", "moving"}]_vars

\* A robot that is half way along a lane, with a hop already behind it on
\* the path it follows and the lane it is on reserved for it.
C17_Witness ==
    \E i \in RobotIdx :
        /\ last.op = "update_robots"
        /\ Followed(i)
        /\ trail[i].visited # <<>>
        /\ robots[i].path # <<>>
        /\ robots[i].progress = 1
        /\ robots[i].current_lane = <<robots[i].current_vertex, robots[i].path[1]>>
        /\ robots[i].current_lane \in DOMAIN occupied_lanes

\* The lanes request_lane has been called with and has answered by a
\* reservation (line 40) or by a place in the wait queue (line 47).  Robots
\* call request_lane from _handle_movement only.
RequestedLanes ==
    DOMAIN occupied_lanes \cup {lane \in Lanes : waiting_queues[lane] # <<>>}

\* C18: every lane that _handle_movement passes to request_lane has distinct
\* endpoints, whatever path get_shortest_path returned at the assignment,
\* also when the destination is the vertex the robot stands on.
C18_RequestedLanesWellFormed ==
    \A lane \in RequestedLanes : lane[1] # lane[2]

\* What _check_imminent_collision looks at when a tick of delta_time starts:
\* the robot holds a lane, has at least two vertices on its path, reaches
\* progress 1.0 within the frame, and the lane (path[0], path[1]) is reserved.
StopPredicted(i, delta_time) ==
    /\ robots[i].current_lane # None
    /\ Len(robots[i].path) >= 2
    /\ robots[i].progress + MovementSpeed * delta_time >= ProgressFull
    /\ <<robots[i].path[1], robots[i].path[2]>> \in DOMAIN occupied_lanes

\* C19: a tick that starts with the robot holding a lane, a path of length
\* >= 2, progress + movement_speed * delta_time >= 1.0 and the next lane
\* reserved ends with status emergency_stop and with current_vertex, path,
\* progress, current_lane and the reservations of the arbiter as they were.
C19_PredictiveStop ==
    [][\A i \in RobotIdx, dt \in DeltaTimes :
          (StopPredicted(i, dt) /\ UpdateRobot(i, dt)) =>
              /\ robots'[i].status = "emergency_stop"
              /\ robots'[i].current_vertex = robots[i].current_vertex
              /\ robots'[i].path = robots[i].path
              /\ robots'[i].progress = robots[i].progress
              /\ robots'[i].current_lane = robots[i].current_lane
              /\ UNCHANGED <<occupied_lanes, occupation_timestamps>>]_vars

\* A robot stopped by the check before its movement: it is on a lane it has
\* not advanced on (a stop after the movement leaves progress above 0), and
\* the lane (path[0], path[1]) is reserved.
C19_Witness ==
    \E i \in RobotIdx :
        /\ last.op = "update"
        /\ last.id = robots[i].id
        /\ robots[i].status = "emergency_stop"
        /\ robots[i].current_lane # None
        /\ robots[i].progress = 0
        /\ Len(robots[i].path) >= 2
        /\ <<robots[i].path[1], robots[i].path[2]>> \in DOMAIN occupied_lanes

\* A waiting robot whose lane (current_vertex, path[0]) and its reverse are
\* both unreserved.
WaitingWithFreeLane(i) ==
    /\ robots[i].status = "waiting"
    /\ robots[i].path # <<>>
    /\ <<robots[i].current_vertex, robots[i].path[1]>> \notin DOMAIN occupied_lanes
    /\ <<robots[i].path[1], robots[i].current_vertex>> \notin DOMAIN occupied_lanes

\* C20: a tick of a waiting robot whose lane (current_vertex, path[0]) and its
\* reverse are unreserved requests the lane and is granted it: after the tick
\* the robot is not waiting any more, and it holds the lane or has completed
\* the hop along it, whether max_wait_time has expired or not.
C20_WaitingRetriesEveryTick ==
    [][\A i \in RobotIdx, dt \in DeltaTimes :
          (WaitingWithFreeLane(i) /\ UpdateRobot(i, dt)) =>
              LET lane == <<robots[i].current_vertex, robots[i].path[1]>>
              IN  /\ robots'[i].status # "waiting"
                  /\ \/ /\ lane \in DOMAIN occupied_lanes'
                        /\ occupied_lanes'[lane] = robots[i].id
                        /\ robots'[i].current_lane = lane
                     \/ robots'[i].path = Tail(robots[i].path)]_vars

\* A waiting robot whose wait has lasted longer than max_wait_time.
WaitExpired(i) ==
    /\ robots[i].status = "waiting"
    /\ Truthy(robots[i].wait_start_time)
    /\ now - robots[i].wait_start_time > MaxWaitTime

LowBattery(i) ==
    /\ robots[i].battery < MinBattery
    /\ robots[i].status \notin {"charging", "error"}

\* C22: a tick of a fleet in which a robot's battery is below min_battery,
\* its status neither charging nor error, completes normally: update raises
\* nothing (the first thing the claimed diversion to charging needs).
C22_LowBatteryTickCompletes ==
    [][((\E i \in RobotIdx : LowBattery(i))
          /\ last'.op \in {"update", "update_robots"})
          => last'.exc = "none"]_vars

\* A moving robot that holds no lane and whose request for the lane
\* (current_vertex, path[0]) is granted if it is made now.
GrantDue(i) ==
    /\ robots[i].status = "moving"
    /\ robots[i].battery >= MinBattery
    /\ robots[i].path # <<>>
    /\ robots[i].current_lane = None
    /\ request_lane(TM, robots[i].id,
                    <<robots[i].current_vertex, robots[i].path[1]>>, now).ret

\* C23: the tick in which request_lane grants a moving robot its lane only
\* takes ownership: after it current_lane is the granted lane, the lane is
\* reserved for the robot, progress is 0, and current_vertex and path are as
\* before; the battery is not drained in that tick.
C23_GrantTickDoesNotMove ==
    [][\A i \in RobotIdx, dt \in DeltaTimes :
          (GrantDue(i) /\ UpdateRobot(i, dt)) =>
              LET lane == <<robots[i].current_vertex, robots[i].path[1]>>
              IN  /\ robots'[i].current_lane = lane
                  /\ lane \in DOMAIN occupied_lanes'
                  /\ occupied_lanes'[lane] = robots[i].id
                  /\ robots'[i].progress = 0
                  /\ robots'[i].current_vertex = robots[i].current_vertex
                  /\ robots'[i].path = robots[i].path
                  /\ robots'[i].battery = robots[i].battery]_vars

\* C24: release_lane, like every arbiter operation other than request_lane,
\* creates no reservation; after release_lane(L) of a reserved lane L neither
\* L nor its reverse is reserved; and request_lane(agent, L) called while L
\* and its reverse are unreserved is granted to the caller, wherever it
\* stands in L's wait queue and whether it is in it or not.
C24_NoAutoGrant ==
    [][/\ last'.op \notin {"request_lane", "update", "update_robots"} =>
            \A lane \in DOMAIN occupied_lanes' :
                /\ lane \in DOMAIN occupied_lanes
                /\ occupied_lanes'[lane] = occupied_lanes[lane]
       /\ (last'.op = "release_lane" /\ last'.lane \in DOMAIN occupied_lanes) =>
            /\ last'.lane \notin DOMAIN occupied_lanes'
            /\ Rev(last'.lane) \notin DOMAIN occupied_lanes'
       /\ (/\ last'.op = "request_lane"
           /\ last'.lane \notin DOMAIN occupied_lanes
           /\ Rev(last'.lane) \notin DOMAIN occupied_lanes) =>
            /\ last'.ret
            /\ last'.lane \in DOMAIN occupied_lanes'
            /\ occupied_lanes'[last'.lane] = last'.id]_vars

\* A lane granted to an agent while another agent is at the head of the
\* lane's wait queue.
C24_Witness ==
    /\ last.op = "request_lane"
    /\ last.ret
    /\ waiting_queues[last.lane] # <<>>
    /\ Head(waiting_queues[last.lane]) # last.id

\* The wait-for graph: a waits for b when a is in the wait queue of a lane
\* that is reserved, or whose reverse is reserved, for another agent b.
WaitsFor(a, b) ==
    /\ a # b
    /\ \E lane \in Lanes :
          /\ InSeq(a, waiting_queues[lane])
          /\ \/ lane \in DOMAIN occupied_lanes /\ occupied_lanes[lane] = b
             \/ Rev(lane) \in DOMAIN occupied_lanes /\ occupied_lanes[Rev(lane)] = b

RECURSIVE WaitsForWithin(_, _, _)
WaitsForWithin(a, b, n) ==
    /\ n > 0
    /\ \/ WaitsFor(a, b)
       \/ \E c \in 1 .. MaxRobots : WaitsFor(a, c) /\ WaitsForWithin(c, b, n - 1)

OnCycle(a) == WaitsForWithin(a, a, MaxRobots)

\* C25: whenever the wait-for graph has a cycle, _find_deadlocks returns the
\* robots on it, and a call of _resolve_issues in such a state releases at
\* least one reservation owned by a robot on the cycle.
C25_DeadlockDetected ==
    /\ [](\A a \in 1 .. MaxRobots : OnCycle(a) => a \in _find_deadlocks(TM))
    /\ [][((\E a \in 1 .. MaxRobots : OnCycle(a)) /\ last'.op = "_resolve_issues")
            => \E a \in 1 .. MaxRobots :
                  /\ OnCycle(a)
                  /\ OwnedLanes(a) \ DOMAIN occupied_lanes' # {}]_vars

ReclamationOps == {"_perform_periodic_checks", "_resolve_issues", "resolve_deadlocks"}

\* the TIMEOUT events of the last call that name this lane
TimeoutEvents(events, lane) ==
    {k \in 1 .. Len(events) : events[k].event = "TIMEOUT" /\ events[k].lane = lane}

\* What a call of one reclamation routine does to the reservations.
ReclaimedAsClaimed ==
    /\ last'.exc = "none"
    /\ \A lane \in DOMAIN occupied_lanes :
          IF lane \notin DOMAIN occupied_lanes'
          THEN /\ now - occupation_timestamps[lane] > StaleAfter
               /\ lane \notin DOMAIN occupation_timestamps'
               /\ Cardinality(TimeoutEvents(new_events', lane)) = 1
               /\ \A k \in TimeoutEvents(new_events', lane) :
                     new_events'[k].robot_id = occupied_lanes[lane]
          ELSE /\ occupied_lanes'[lane] = occupied_lanes[lane]
               /\ occupation_timestamps'[lane] = occupation_timestamps[lane]
               /\ TimeoutEvents(new_events', lane) = {}

\* C26: a reclamation routine (_perform_periodic_checks, _resolve_issues,
\* resolve_deadlocks) that force-releases a reservation held longer than 5 s
\* records exactly one TIMEOUT event with that lane and its owner, removes
\* the reservation and its timestamp, and raises nothing; every other
\* reservation is left as it was.
C26_ReclamationReports ==
    [][last'.op \in ReclamationOps => ReclaimedAsClaimed]_vars

\* no call of spawn_robot is under way
NoSpawnUnderWay == \A t \in 1 .. Len(threads) : threads[t].pc = "line31"

\* C27: after any sequence and any interleaving of spawn_robot calls all
\* robots of the fleet have pairwise distinct ids, next_id is greater than
\* every id in use, and the robot a call has just added is as Robot.__init__
\* leaves it: status idle, battery 100, empty path, no lane held.
C27_SpawnUniqueIds ==
    NoSpawnUnderWay =>
        /\ \A i, j \in RobotIdx : i # j => robots[i].id # robots[j].id
        /\ \A i \in RobotIdx : next_id > robots[i].id
        /\ last.op = "spawn_robot" =>
              \E i \in RobotIdx :
                  /\ robots[i].id = last.id
                  /\ robots[i] = NewRobot(last.id, robots[i].current_vertex)

ArbiterOps == {"request_lane", "release_lane", "clear_queues"} \cup ReclamationOps

\* C28: a tick of one robot, with the arbiter calls it makes, changes no
\* field of any other robot; and a call of request_lane, release_lane or a
\* reclamation routine changes no field of any robot.
C28_AgentsIsolated ==
    [][/\ last'.op = "update" =>
            /\ Len(robots') = Len(robots)
            /\ \A j \in RobotIdx :
                  robots[j].id # last'.id => robots'[j] = robots[j]
       /\ last'.op \in ArbiterOps => UNCHANGED robots]_vars

\* A tick in which a robot completed its last hop and released its lane,
\* while another robot is waiting.
C28_Witness ==
    /\ last.op = "update"
    /\ last.ret
    /\ \E i, j \in RobotIdx :
          /\ i # j
          /\ robots[i].id = last.id
          /\ robots[i].status = "idle"
          /\ robots[i].destination # NoVertex
          /\ robots[j].status = "waiting"

\* a robot in emergency_stop whose battery is not below min_battery
Stopped(i) ==
    /\ robots[i].status = "emergency_stop"
    /\ robots[i].battery >= MinBattery

\* C29: a tick leaves a robot that is in emergency_stop (battery not below
\* min_battery) with its status, current_vertex, path, progress and
\* current_lane as they were, and its own tick leaves every reservation as
\* it was, also when the lane ahead has become free; a robot leaves
\* emergency_stop only in an assign_task call.
C29_EmergencyStopAbsorbing ==
    [][\A i \in RobotIdx :
          Stopped(i) =>
              /\ last'.op \in {"update", "update_robots"} =>
                    /\ robots'[i].status = "emergency_stop"
                    /\ robots'[i].current_vertex = robots[i].current_vertex
                    /\ robots'[i].path = robots[i].path
                    /\ robots'[i].progress = robots[i].progress
                    /\ robots'[i].current_lane = robots[i].current_lane
              /\ (last'.op = "update" /\ last'.id = robots[i].id) =>
                    UNCHANGED <<occupied_lanes, occupation_timestamps>>
              /\ robots'[i].status # "emergency_stop" =>
                    last'.op \in {"assign_task", "fleet_assign_task"}]_vars

\* A stopped robot that has just been ticked with the lane ahead free again,
\* and still holds its lane.
C29_Witness ==
    \E i \in RobotIdx :
        /\ last.op = "update"
        /\ last.id = robots[i].id
        /\ Stopped(i)
        /\ Len(robots[i].path) >= 2
        /\ <<robots[i].path[1], robots[i].path[2]>> \notin DOMAIN occupied_lanes
        /\ robots[i].current_lane \in OwnedLanes(robots[i].id)

RobotOps == {"update", "update_robots", "assign_task", "fleet_assign_task"}

\* C30: an update tick or an assign_task call (on the robot or through the
\* fleet manager, with any destination) leaves a robot that is in status
\* error in status error, and leaves every reservation it owns in place.
C30_ErrorAbsorbing ==
    [][\A i \in RobotIdx :
          (robots[i].status = "error" /\ last'.op \in RobotOps) =>
              /\ robots'[i].status = "error"
              /\ \A lane \in OwnedLanes(robots[i].id) :
                    /\ lane \in DOMAIN occupied_lanes'
                    /\ occupied_lanes'[lane] = robots[i].id]_vars

\* A robot in status error that owns a reservation and has just been ticked.
C30_Witness ==
    /\ last.op = "update_robots"
    /\ \E i \in RobotIdx :
          /\ robots[i].status = "error"
          /\ OwnedLanes(robots[i].id) # {}

\* C31: a robot whose current_lane is a lane L owns the reservation of L in
\* the arbiter's reservation map; where a stale reservation has been
\* reclaimed this holds again once the robot has been ticked: after every
\* tick, every moving robot that treats a lane as held owns its reservation.
C31_ViewAgreesWithArbiter ==
    (last.op \in {"update", "update_robots"} /\ last.exc = "none") =>
        \A i \in RobotIdx :
            (Holds(i) /\ robots[i].status = "moving") =>
                /\ robots[i].current_lane \in DOMAIN occupied_lanes
                /\ occupied_lanes[robots[i].current_lane] = robots[i].id

\* The reservations a tick has taken away: lanes reserved before the tick that
\* are unreserved, or reserved for another robot, after it.
LostInTick ==
    {lane \in DOMAIN occupied_lanes :
        \/ lane \notin DOMAIN occupied_lanes'
        \/ occupied_lanes'[lane] # occupied_lanes[lane]}

\* C32: a tick removes a reservation only through the hop completion of its
\* owner: whenever a tick takes away the reservation of a lane L owned by
\* robot A, A has completed its hop along L in that tick.  (Reclamation is a
\* call of its own, not part of a tick.)
C32_OnlyOwnerReleases ==
    [][last'.op \in {"update", "update_robots"} =>
          \A lane \in LostInTick :
              \E i \in RobotIdx :
                  /\ robots[i].id = occupied_lanes[lane]
                  /\ HopCompleted(i)
                  /\ lane = <<robots[i].current_vertex, robots[i].path[1]>>]_vars

\* A denied request_lane by an agent that was queued on the lane before the
\* call: it is in the queue, and not as the entry appended last.
C10_Witness ==
    /\ last.op = "request_lane"
    /\ ~last.ret
    /\ \E k \in 1 .. Len(waiting_queues[last.lane]) - 1 :
          waiting_queues[last.lane][k] = last.id

====
